---------------------------- MODULE Spec2Model ----------------------------
(***************************************************************************)
(* A model of leveldb/storage/file_storage.go: the file-system backed     *)
(* storage of goleveldb.  The state is one storage directory, the         *)
(* fileStorage instances opened on it, and the file, fileWrap and         *)
(* fileStorageLock objects handed out to callers.  Every exported method  *)
(* is one action; the mutex fs.mu makes each of them one atomic step.     *)
(*                                                                         *)
(* File names and the content of CURRENT are sequences of one-character   *)
(* strings, so that name() and parse() are computed character by          *)
(* character, the way fmt.Sprintf and fmt.Sscanf compute them.            *)
(***************************************************************************)
EXTENDS Integers, Sequences, FiniteSets, TLC

(***************************************************************************)
(* Bounds of the model.                                                    *)
(***************************************************************************)
\* storage instances opened on the directory over one run
MaxInst == 2
\* objects handed out over one run: storage instances, File values, fileWrap
\* handles and fileStorageLock handles together
MaxObjects == 4
\* a sequence number with more than six decimal digits
BigNum == 1234567
\* threads calling into one storage at the same time
MaxThreads == 2


(***************************************************************************)
(* File types (FileType) and the fixed names of the directory.             *)
(***************************************************************************)
TypeManifest == "manifest"
TypeJournal == "journal"
TypeTable == "table"
FileTypes == {TypeManifest, TypeJournal, TypeTable}

\* the descriptors callers pass to GetFile: <<type, number>>
Descs == {<<TypeManifest, 0>>, <<TypeManifest, BigNum>>, <<TypeTable, 1>>}

CURRENT == <<"C", "U", "R", "R", "E", "N", "T">>
LOCKNAME == <<"L", "O", "C", "K">>
LOGNAME == <<"L", "O", "G">>
LOGOLD == <<"L", "O", "G", ".", "o", "l", "d">>
MANIFESTPFX == <<"M", "A", "N", "I", "F", "E", "S", "T", "-">>
NL == "\n"

Digits == <<"0", "1", "2", "3", "4", "5", "6", "7", "8", "9">>
DigitSet == {"0", "1", "2", "3", "4", "5", "6", "7", "8", "9"}
DigitVal(c) ==
    CASE c = "0" -> 0 [] c = "1" -> 1 [] c = "2" -> 2 [] c = "3" -> 3 [] c = "4" -> 4
      [] c = "5" -> 5 [] c = "6" -> 6 [] c = "7" -> 7 [] c = "8" -> 8 [] c = "9" -> 9

(***************************************************************************)
(* fmt.Sprintf: %d and %06d of an unsigned number.                         *)
(***************************************************************************)
RECURSIVE Dec(_)
Dec(n) == IF n < 10 THEN <<Digits[n + 1]>>
          ELSE Dec(n \div 10) \o <<Digits[(n % 10) + 1]>>

RECURSIVE Pad(_, _)
Pad(s, wid) == IF Len(s) < wid THEN Pad(<<"0">> \o s, wid) ELSE s

\* a mutant of name: the number cut to its six low digits
nameTruncated(t, num) ==
    CASE t = TypeManifest -> MANIFESTPFX \o Pad(Dec(num % 1000000), 6)
      [] t = TypeJournal  -> Pad(Dec(num % 1000000), 6) \o <<".", "l", "o", "g">>
      [] t = TypeTable    -> Pad(Dec(num % 1000000), 6) \o <<".", "s", "s", "t">>

\* file.name
name(t, num) ==
    CASE t = TypeManifest -> MANIFESTPFX \o Pad(Dec(num), 6)
      [] t = TypeJournal  -> Pad(Dec(num), 6) \o <<".", "l", "o", "g">>
      [] t = TypeTable    -> Pad(Dec(num), 6) \o <<".", "s", "s", "t">>

\* a mutant of TempName: SetManifest writing CURRENT in place
TempNameInPlace(num) == CURRENT

\* the temp file of SetManifest: fmt.Sprintf("%s.%d", "CURRENT", num)
TempName(num) == CURRENT \o <<".">> \o Dec(num)

(***************************************************************************)
(* fmt.Sscanf, as far as file.parse uses it.  A scan is a position in the  *)
(* input; position Len(s) + 1 is the end of the input.                     *)
(***************************************************************************)
\* blanks that a verb skips; a newline in the input is an error instead
Blanks == {" ", "\t", "\r"}

RECURSIVE SkipSpace(_, _)
SkipSpace(s, p) == IF p <= Len(s) /\ s[p] \in Blanks THEN SkipSpace(s, p + 1) ELSE p

RECURSIVE ScanDigits(_, _)
ScanDigits(s, p) == IF p <= Len(s) /\ s[p] \in DigitSet THEN ScanDigits(s, p + 1) ELSE p

RECURSIVE ScanToken(_, _)
ScanToken(s, p) ==
    IF p <= Len(s) /\ s[p] \notin (Blanks \cup {NL}) THEN ScanToken(s, p + 1) ELSE p

RECURSIVE DigitsValue(_, _, _)
\* the value of the digits s[p..q-1]
DigitsValue(s, p, q) ==
    IF q <= p THEN 0 ELSE DigitsValue(s, p, q - 1) * 10 + DigitVal(s[q - 1])

\* whether s continues at p with the literal text lit
MatchLit(s, p, lit) ==
    /\ p + Len(lit) - 1 <= Len(s)
    /\ \A k \in 1..Len(lit) : s[p + k - 1] = lit[k]

\* %d at position p: [ok, num, next]
ScanUint(s, p) ==
    LET a == SkipSpace(s, p)
        b == ScanDigits(s, a)
    IN  [ok |-> b > a, num |-> DigitsValue(s, a, b), next |-> b]

\* %s at position p: [ok, str, next]
ScanStr(s, p) ==
    LET a == SkipSpace(s, p)
        b == ScanToken(s, a)
    IN  [ok |-> b > a, str |-> SubSeq(s, a, b - 1), next |-> b]

\* fmt.Sscanf(name, "%d.%s", &num, &tail): [ok, num, tail]; ok is err == nil
ScanNumDotStr(s) ==
    LET d == ScanUint(s, 1)
        dot == d.ok /\ MatchLit(s, d.next, <<".">>)
        t == ScanStr(s, d.next + 1)
    IN  [ok |-> dot /\ t.ok, num |-> d.num, tail |-> IF dot /\ t.ok THEN t.str ELSE <<>>]

\* fmt.Sscanf(name, "MANIFEST-%d%s", &num, &tail): [n, num]; n counts the items scanned
ScanManifest(s) ==
    LET lit == MatchLit(s, 1, MANIFESTPFX)
        d == ScanUint(s, Len(MANIFESTPFX) + 1)
        t == ScanStr(s, d.next)
    IN  [n |-> IF ~(lit /\ d.ok) THEN 0 ELSE IF t.ok THEN 2 ELSE 1, num |-> d.num]

\* a mutant of parse: a manifest name needs both items of the second scan
parseBothItems(nm) ==
    LET a == ScanNumDotStr(nm)
        m == ScanManifest(nm)
    IN  IF a.ok
        THEN IF a.tail = <<"l", "o", "g">> THEN [ok |-> TRUE, t |-> TypeJournal, num |-> a.num]
             ELSE IF a.tail = <<"s", "s", "t">> THEN [ok |-> TRUE, t |-> TypeTable, num |-> a.num]
             ELSE [ok |-> FALSE, t |-> "", num |-> 0]
        ELSE IF m.n = 2 THEN [ok |-> TRUE, t |-> TypeManifest, num |-> m.num]
             ELSE [ok |-> FALSE, t |-> "", num |-> 0]

\* file.parse: [ok, t, num]
parse(nm) ==
    LET a == ScanNumDotStr(nm)
        m == ScanManifest(nm)
    IN  IF a.ok
        THEN IF a.tail = <<"l", "o", "g">> THEN [ok |-> TRUE, t |-> TypeJournal, num |-> a.num]
             ELSE IF a.tail = <<"s", "s", "t">> THEN [ok |-> TRUE, t |-> TypeTable, num |-> a.num]
             ELSE [ok |-> FALSE, t |-> "", num |-> 0]
        ELSE IF m.n = 1 THEN [ok |-> TRUE, t |-> TypeManifest, num |-> m.num]
             ELSE [ok |-> FALSE, t |-> "", num |-> 0]


(***************************************************************************)
(* The state.                                                              *)
(***************************************************************************)
VARIABLES
    dir,      \* the storage directory: file name -> content
    flock,    \* the OS lock on LOCK: 0 when free, else the instance holding it
    fs,       \* the fileStorage instances: [made, open, slock, logw]
    files,    \* the file objects handed out: [fs, num, t, open]
    handles,  \* the fileWrap values handed out: [f, closed, osOpen]
    locks,    \* the fileStorageLock objects handed out: [fs, released]
    lastSet,  \* history: the number of the last SetManifest that returned nil, or -1
    mu,       \* fs.mu of each instance: 0 when free, else the thread holding it
    calls     \* the call each thread is in: [pc, op, arg, go, res]

vars == <<dir, flock, fs, files, handles, locks, lastSet, mu, calls>>

Insts == 1..MaxInst
Threads == 1..MaxThreads

\* the results of the os calls that fail for reasons outside the program
OpenFileIO == {"ok", "mkdir_fail", "log_fail"}
SetManifestIO == {"ok", "create_fail", "rename_fail"}
\* the kind masks callers pass to GetFiles
Masks == {{TypeTable}, {TypeManifest}, {TypeManifest, TypeJournal}, FileTypes}

NoInst == [made |-> FALSE, open |-> 0, slock |-> 0, logw |-> FALSE]

EmptyDir == [n \in {} |-> <<>>]

\* a thread that is in no call
NoCall == [pc |-> "idle", op |-> "", arg |-> 0, go |-> FALSE, res |-> ""]

Init ==
    /\ dir = EmptyDir
    /\ flock = 0
    /\ fs = [i \in Insts |-> NoInst]
    /\ files = <<>>
    /\ handles = <<>>
    /\ locks = <<>>
    /\ lastSet = -1
    /\ mu = [i \in Insts |-> 0]
    /\ calls = [t \in Threads |-> NoCall]

(***************************************************************************)
(* The file system calls the storage makes.                                *)
(***************************************************************************)
Exists(d, n) == n \in DOMAIN d

\* os.OpenFile(n, O_CREATE|O_TRUNC) followed by a write of c
WriteFile(d, n, c) == [m \in DOMAIN d \cup {n} |-> IF m = n THEN c ELSE d[m]]

\* os.OpenFile(n, O_CREATE) without O_TRUNC
TouchFile(d, n) == IF Exists(d, n) THEN d ELSE WriteFile(d, n, <<>>)

\* os.Remove
RemoveFile(d, n) == [m \in DOMAIN d \ {n} |-> d[m]]

\* rename(a, b): b atomically becomes what a was; nothing happens without a
Rename(d, a, b) ==
    IF ~Exists(d, a) \/ a = b THEN d
    ELSE [m \in (DOMAIN d \ {a}) \cup {b} |-> IF m = b THEN d[a] ELSE d[m]]

\* the objects handed out
Made(i) == fs[i].made
Active(i) == fs[i].made /\ fs[i].open >= 0
\* how many objects have been handed out
Objects == Cardinality({i \in Insts : fs[i].made}) + Len(files) + Len(handles) + Len(locks)
FileIds == 1..Len(files)
HandleIds == 1..Len(handles)
LockIds == 1..Len(locks)
path(f) == name(files[f].t, files[f].num)

(***************************************************************************)
(* OpenFile and the process lock.                                          *)
(***************************************************************************)
\* newFileLock on LOCK: the lock file is created, the OS lock is taken when free
LockFileDir(d) == TouchFile(d, LOCKNAME)
FlockFree == flock = 0

\* a mutant of ReleaseOnError: the deferred release left out
ReleaseOnErrorNever(err, holder) == holder

\* the deferred function of OpenFile: flock.release() when err is not nil
ReleaseOnError(err, holder) == IF err # "nil" THEN 0 ELSE holder

\* the instance the next successful OpenFile constructs
NextInst == Cardinality({i \in Insts : Made(i)}) + 1

\* rename(LOG, LOG.old)
RotateLog(d) == Rename(d, LOGNAME, LOGOLD)

\* what OpenFile returns
OpenFileErr(io) ==
    IF io = "mkdir_fail" THEN "EIO"
    ELSE IF ~FlockFree THEN "EAGAIN"
    ELSE IF io = "log_fail" THEN "EIO"
    ELSE "nil"

OpenFile(io) ==
    /\ NextInst \in Insts
    /\ OpenFileErr(io) = "nil" => Objects < MaxObjects
    /\ IF io = "mkdir_fail"
       THEN UNCHANGED <<dir, flock, fs>>
       ELSE IF ~FlockFree
       THEN /\ dir' = LockFileDir(dir)
            /\ UNCHANGED <<flock, fs>>
       ELSE IF io = "log_fail"
       THEN /\ dir' = RotateLog(LockFileDir(dir))
            /\ flock' = ReleaseOnError(OpenFileErr(io), NextInst)
            /\ UNCHANGED fs
       ELSE /\ dir' = TouchFile(RotateLog(LockFileDir(dir)), LOGNAME)
            /\ flock' = ReleaseOnError(OpenFileErr(io), NextInst)
            /\ fs' = [fs EXCEPT ![NextInst] =
                         [made |-> TRUE, open |-> 0, slock |-> 0, logw |-> TRUE]]
    /\ UNCHANGED <<files, handles, locks, lastSet>>
    /\ UNCHANGED <<mu, calls>>

(***************************************************************************)
(* Lock and Release.                                                       *)
(***************************************************************************)
\* a mutant of LockErr: the holder is not looked at
LockErrNoHolder(i) == IF fs[i].open < 0 THEN "ErrClosed" ELSE "nil"

\* what Lock returns
LockErr(i) ==
    IF fs[i].open < 0 THEN "ErrClosed"
    ELSE IF fs[i].slock # 0 THEN "ErrLocked"
    ELSE "nil"

Lock(i) ==
    /\ Made(i)
    /\ IF LockErr(i) = "nil"
       THEN /\ Objects < MaxObjects
            /\ locks' = Append(locks, [fs |-> i, released |-> FALSE])
            /\ fs' = [fs EXCEPT ![i].slock = Len(locks) + 1]
       ELSE UNCHANGED <<fs, locks>>
    /\ UNCHANGED <<dir, flock, files, handles, lastSet>>
    /\ UNCHANGED <<mu, calls>>

\* a mutant of ReleasedSlot: the slot is cleared whoever holds it
ReleasedSlotAlways(i, l) == 0

\* the slot of instance i after Release of lock l
ReleasedSlot(i, l) == IF fs[i].slock = l THEN 0 ELSE fs[i].slock

Release(l) ==
    /\ l \in LockIds
    /\ fs' = [fs EXCEPT ![locks[l].fs].slock = ReleasedSlot(locks[l].fs, l)]
    /\ locks' = [locks EXCEPT ![l].released = TRUE]
    /\ UNCHANGED <<dir, flock, files, handles, lastSet>>
    /\ UNCHANGED <<mu, calls>>

(***************************************************************************)
(* Log: a line is appended to LOG unless the storage is closed.  The       *)
(* content of LOG is not part of the model, so the call leaves the state.  *)
(***************************************************************************)
Log(i) ==
    /\ Made(i)
    /\ UNCHANGED vars

(***************************************************************************)
(* GetFile, GetFiles.                                                      *)
(***************************************************************************)
NewFile(i, num, t) == [fs |-> i, num |-> num, t |-> t, open |-> FALSE]

GetFile(i, num, t) ==
    /\ Made(i)
    /\ Objects < MaxObjects
    /\ files' = Append(files, NewFile(i, num, t))
    /\ UNCHANGED <<dir, flock, fs, handles, locks, lastSet>>
    /\ UNCHANGED <<mu, calls>>

\* a mutant of Matching: the mask is not looked at
MatchingAnyKind(d, mask) == {n \in DOMAIN d : parse(n).ok}

\* the directory entries GetFiles keeps for a mask
Matching(d, mask) == {n \in DOMAIN d : LET r == parse(n) IN r.ok /\ r.t \in mask}

\* the orders in which Readdirnames may list a set of names
Orders(S) == {o \in [1..Cardinality(S) -> S] : \A a, b \in DOMAIN o : o[a] = o[b] => a = b}

\* what GetFiles returns
GetFilesErr(i) == IF fs[i].open < 0 THEN "ErrClosed" ELSE "nil"

\* the File values GetFiles returns for the names o
GetFilesResult(i, o) == [k \in 1..Len(o) |-> LET r == parse(o[k]) IN NewFile(i, r.num, r.t)]

GetFiles(i, mask) ==
    /\ Made(i)
    /\ IF GetFilesErr(i) # "nil"
       THEN UNCHANGED files
       ELSE \E o \in Orders(Matching(dir, mask)) :
            /\ Objects + Len(o) <= MaxObjects
            /\ files' = files \o GetFilesResult(i, o)
    /\ UNCHANGED <<dir, flock, fs, handles, locks, lastSet>>
    /\ UNCHANGED <<mu, calls>>

(***************************************************************************)
(* GetManifest and SetManifest.                                            *)
(***************************************************************************)
\* the check of GetManifest on the bytes of CURRENT
ValidCurrent(b) ==
    /\ Len(b) >= 1
    /\ b[Len(b)] = NL
    /\ parse(SubSeq(b, 1, Len(b) - 1)).ok

\* the descriptor GetManifest reads from the bytes of CURRENT
CurrentFile(b) == parse(SubSeq(b, 1, Len(b) - 1))

\* what GetManifest returns on directory d
GetManifestErr(i, d) ==
    IF fs[i].open < 0 THEN "ErrClosed"
    ELSE IF ~Exists(d, CURRENT) THEN "ENOENT"
    ELSE IF ~ValidCurrent(d[CURRENT]) THEN "errInvalidCurrent"
    ELSE "nil"

\* the File value GetManifest returns on directory d
GetManifestResult(i, d) == NewFile(i, CurrentFile(d[CURRENT]).num, CurrentFile(d[CURRENT]).t)

GetManifest(i) ==
    /\ Made(i)
    /\ IF GetManifestErr(i, dir) = "nil"
       THEN /\ Objects < MaxObjects
            /\ files' = Append(files, GetManifestResult(i, dir))
       ELSE UNCHANGED files
    /\ UNCHANGED <<dir, flock, fs, handles, locks, lastSet>>
    /\ UNCHANGED <<mu, calls>>

\* fmt.Fprintln(w, f2.name()): the bytes SetManifest writes
ManifestLine(num) == name(TypeManifest, num) \o <<NL>>

\* a write that stopped early: part of the line
TornLine(num) == SubSeq(ManifestLine(num), 1, Len(ManifestLine(num)) - 1)

\* the directory at the points of SetManifest: the temp file created, written
\* in part, written, and renamed over CURRENT
SetManifestDir(d, num, stage) ==
    CASE stage = "none"    -> d
      [] stage = "created" -> WriteFile(d, TempName(num), <<>>)
      [] stage = "torn"    -> WriteFile(d, TempName(num), TornLine(num))
      [] stage = "written" -> WriteFile(d, TempName(num), ManifestLine(num))
      [] stage = "renamed" ->
            Rename(WriteFile(d, TempName(num), ManifestLine(num)), TempName(num), CURRENT)

\* the point SetManifest reaches for each result of its os calls; a failed write
\* differs from a failed rename only in the bytes of the temp file, which nothing
\* reads, so the failed rename stands for both
StageOf(io) ==
    CASE io = "create_fail" -> "none"
      [] io = "rename_fail" -> "written"
      [] io = "ok"          -> "renamed"

\* a mutant of SetManifestErr: the kind of the File value is not looked at
SetManifestErrAnyKind(i, f, io) ==
    IF fs[i].open < 0 THEN "ErrClosed"
    ELSE IF io # "ok" THEN "EIO"
    ELSE "nil"

\* what SetManifest returns
SetManifestErr(i, f, io) ==
    IF fs[i].open < 0 THEN "ErrClosed"
    ELSE IF files[f].t # TypeManifest THEN "ErrInvalidFile"
    ELSE IF io # "ok" THEN "EIO"
    ELSE "nil"

SetManifest(i, f, io) ==
    /\ Made(i)
    /\ f \in FileIds
    /\ dir' = IF SetManifestErr(i, f, io) \in {"ErrClosed", "ErrInvalidFile"} THEN dir
              ELSE SetManifestDir(dir, files[f].num, StageOf(io))
    /\ lastSet' = IF SetManifestErr(i, f, io) = "nil" THEN files[f].num ELSE lastSet
    /\ UNCHANGED <<flock, fs, files, handles, locks>>
    /\ UNCHANGED <<mu, calls>>

(***************************************************************************)
(* Storage.Close.                                                          *)
(***************************************************************************)
\* a mutant of CloseErr: the count of open files is not looked at
CloseErrNoCount(i) == IF fs[i].open < 0 THEN "ErrClosed" ELSE "nil"

\* what Storage.Close returns
CloseErr(i) ==
    IF fs[i].open < 0 THEN "ErrClosed"
    ELSE IF fs[i].open > 0 THEN "errStillOpen"
    ELSE "nil"

Close(i) ==
    /\ Made(i)
    /\ IF CloseErr(i) = "nil"
       THEN /\ fs' = [fs EXCEPT ![i].open = -1, ![i].logw = FALSE]
            /\ flock' = IF flock = i THEN 0 ELSE flock
       ELSE UNCHANGED <<fs, flock>>
    /\ UNCHANGED <<dir, files, handles, locks, lastSet>>
    /\ UNCHANGED <<mu, calls>>

(***************************************************************************)
(* file.Open, file.Create, file.Remove and fileWrap.Close.                 *)
(***************************************************************************)
\* what Open returns; os.OpenFile(O_RDONLY) fails on a file that is not there
OpenErr(f) ==
    IF fs[files[f].fs].open < 0 THEN "ErrClosed"
    ELSE IF files[f].open THEN "errFileOpen"
    ELSE IF ~Exists(dir, path(f)) THEN "ENOENT"
    ELSE "nil"

\* what Create returns; os.OpenFile(O_CREATE|O_TRUNC) makes the file
CreateErr(f) ==
    IF fs[files[f].fs].open < 0 THEN "ErrClosed"
    ELSE IF files[f].open THEN "errFileOpen"
    ELSE "nil"

\* f.open = true; f.fs.open++; return fileWrap{of, f}
Opened(f) ==
    /\ Objects < MaxObjects
    /\ files' = [files EXCEPT ![f].open = TRUE]
    /\ fs' = [fs EXCEPT ![files[f].fs].open = @ + 1]
    /\ handles' = Append(handles, [f |-> f, closed |-> FALSE, osOpen |-> TRUE])

Open(f) ==
    /\ f \in FileIds
    /\ IF OpenErr(f) = "nil" THEN Opened(f) ELSE UNCHANGED <<fs, files, handles>>
    /\ UNCHANGED <<dir, flock, locks, lastSet>>
    /\ UNCHANGED <<mu, calls>>

Create(f) ==
    /\ f \in FileIds
    /\ IF CreateErr(f) = "nil"
       THEN /\ Opened(f)
            /\ dir' = WriteFile(dir, path(f), <<>>)
       ELSE UNCHANGED <<dir, fs, files, handles>>
    /\ UNCHANGED <<flock, locks, lastSet>>
    /\ UNCHANGED <<mu, calls>>

\* a mutant of RemoveErr: the closed storage is not looked at
RemoveErrNoClosed(f) ==
    IF files[f].open THEN "errFileOpen"
    ELSE IF ~Exists(dir, path(f)) THEN "ENOENT"
    ELSE "nil"

\* what Remove returns; os.Remove fails on a file that is not there
RemoveErr(f) ==
    IF fs[files[f].fs].open < 0 THEN "ErrClosed"
    ELSE IF files[f].open THEN "errFileOpen"
    ELSE IF ~Exists(dir, path(f)) THEN "ENOENT"
    ELSE "nil"

Remove(f) ==
    /\ f \in FileIds
    /\ dir' = IF RemoveErr(f) = "nil" THEN RemoveFile(dir, path(f)) ELSE dir
    /\ UNCHANGED <<flock, fs, files, handles, locks, lastSet>>
    /\ UNCHANGED <<mu, calls>>

\* what fileWrap.Close returns: the open flag it tests is the one of the file
\* object, which a later Open of that object sets again; the os.File is the
\* handle's own, and closing it twice is an error of the os
WrapCloseErr(h) ==
    IF ~files[handles[h].f].open THEN "ErrClosed"
    ELSE IF ~handles[h].osOpen THEN "EBADF"
    ELSE "nil"

WrapClose(h) ==
    /\ h \in HandleIds
    /\ IF ~files[handles[h].f].open
       THEN /\ handles' = [handles EXCEPT ![h].closed = TRUE]
            /\ UNCHANGED <<fs, files>>
       ELSE /\ files' = [files EXCEPT ![handles[h].f].open = FALSE]
            /\ fs' = [fs EXCEPT ![files[handles[h].f].fs].open = @ - 1]
            /\ handles' = [handles EXCEPT ![h].closed = TRUE, ![h].osOpen = FALSE]
    /\ UNCHANGED <<dir, flock, locks, lastSet>>
    /\ UNCHANGED <<mu, calls>>

(***************************************************************************)
(* The process stopping inside SetManifest.  Memory is lost, the OS gives  *)
(* the lock on LOCK back, the directory stays as the call left it; the     *)
(* next process starts from there.                                         *)
(***************************************************************************)
CrashStages == {"none", "created", "torn", "written", "renamed"}

CrashInSetManifest(i, f, stage) ==
    /\ Made(i)
    /\ f \in FileIds
    /\ SetManifestErr(i, f, "ok") = "nil"
    /\ dir' = SetManifestDir(dir, files[f].num, stage)
    /\ flock' = 0
    /\ fs' = [j \in Insts |-> NoInst]
    /\ files' = <<>>
    /\ handles' = <<>>
    /\ locks' = <<>>
    /\ lastSet' = -1
    /\ mu' = [j \in Insts |-> 0]
    /\ calls' = [t \in Threads |-> NoCall]

(***************************************************************************)
(* The specifications.                                                     *)
(***************************************************************************)
Next ==
    \/ \E io \in OpenFileIO : OpenFile(io)
    \/ \E i \in Insts : Lock(i)
    \/ \E l \in LockIds : Release(l)
    \/ \E i \in Insts : Log(i)
    \/ \E i \in Insts, d \in Descs : GetFile(i, d[2], d[1])
    \/ \E i \in Insts, mask \in Masks : GetFiles(i, mask)
    \/ \E i \in Insts : GetManifest(i)
    \/ \E i \in Insts, f \in FileIds, io \in SetManifestIO : SetManifest(i, f, io)
    \/ \E i \in Insts : Close(i)
    \/ \E f \in FileIds : Open(f)
    \/ \E f \in FileIds : Create(f)
    \/ \E f \in FileIds : Remove(f)
    \/ \E h \in HandleIds : WrapClose(h)

Spec == Init /\ [][Next]_vars

\* the calls that make a storage and read and write CURRENT, and the process
\* stopping inside SetManifest; no other call writes CURRENT or a temp file
NextCrash ==
    \/ \E io \in OpenFileIO : OpenFile(io)
    \/ \E i \in Insts, d \in Descs : GetFile(i, d[2], d[1])
    \/ \E i \in Insts : GetManifest(i)
    \/ \E i \in Insts, f \in FileIds, io \in SetManifestIO : SetManifest(i, f, io)
    \/ \E i \in Insts : Close(i)
    \/ \E i \in Insts, f \in FileIds, stage \in CrashStages : CrashInSetManifest(i, f, stage)

SpecCrash == Init /\ [][NextCrash]_vars


(***************************************************************************)
(* A directory found on disk.  OpenFile takes whatever directory is at the *)
(* path, so the bytes of CURRENT are an input of GetManifest: they are     *)
(* drawn from the contents below, and the storage is opened on them.       *)
(***************************************************************************)
FoundCurrents ==
    { <<>>,
      <<NL>>,
      <<"f", "o", "o", NL>>,
      MANIFESTPFX \o <<NL>>,
      name(TypeManifest, 0),
      ManifestLine(0),
      ManifestLine(BigNum),
      name(TypeManifest, 0) \o <<"x", NL>>,
      ManifestLine(0) \o ManifestLine(1),
      name(TypeJournal, 1) \o <<NL>>,
      name(TypeTable, 1) \o <<NL>> }

InitFound ==
    /\ \E c \in FoundCurrents : dir = WriteFile(EmptyDir, CURRENT, c)
    /\ flock = 0
    /\ fs = [i \in Insts |-> NoInst]
    /\ files = <<>>
    /\ handles = <<>>
    /\ locks = <<>>
    /\ lastSet = -1
    /\ mu = [i \in Insts |-> 0]
    /\ calls = [t \in Threads |-> NoCall]

\* the calls that make a storage and read CURRENT
NextFound ==
    \/ \E io \in OpenFileIO : OpenFile(io)
    \/ \E i \in Insts : GetManifest(i)
    \/ \E i \in Insts : Close(i)

SpecFound == InitFound /\ [][NextFound]_vars


(***************************************************************************)
(* Calls by several threads on one storage.  Every method starts with      *)
(* fs.mu.Lock() and defers fs.mu.Unlock().  A call is five steps here:     *)
(* Call enters the method, Acquire is fs.mu.Lock() returning, Check makes  *)
(* the tests of the method, Update makes its assignments, Return unlocks   *)
(* and returns.                                                            *)
(***************************************************************************)
ThreadOps == {"Lock", "Release", "Open", "Create", "WrapClose", "Remove", "Close"}

\* the objects a method can be called on
Args(op) ==
    CASE op \in {"Lock", "Close"} -> {i \in Insts : Made(i)}
      [] op = "Release" -> LockIds
      [] op \in {"Open", "Create", "Remove"} -> FileIds
      [] op = "WrapClose" -> HandleIds

\* the storage whose mutex the call takes
InstOf(op, arg) ==
    CASE op \in {"Lock", "Close"} -> arg
      [] op = "Release" -> locks[arg].fs
      [] op \in {"Open", "Create", "Remove"} -> files[arg].fs
      [] op = "WrapClose" -> files[handles[arg].f].fs

\* what the call returns, as its tests find the state
ErrOf(op, arg) ==
    CASE op = "Lock" -> LockErr(arg)
      [] op = "Release" -> "nil"
      [] op = "Open" -> OpenErr(arg)
      [] op = "Create" -> CreateErr(arg)
      [] op = "WrapClose" -> WrapCloseErr(arg)
      [] op = "Remove" -> RemoveErr(arg)
      [] op = "Close" -> CloseErr(arg)

\* whether the tests let the call go on to its assignments
Proceeds(op, arg) ==
    CASE op = "Release" -> fs[locks[arg].fs].slock = arg
      [] op = "WrapClose" -> files[handles[arg].f].open
      [] OTHER -> ErrOf(op, arg) = "nil"

\* a mutant of MuFree: fs.mu.Lock() that never waits
MuFreeAlways(i) == TRUE

\* fs.mu.Lock() returns when no thread holds the mutex
MuFree(i) == mu[i] = 0

\* calls under way that may hand out a new object
Pending == Cardinality({t \in Threads : calls[t].pc # "idle"
                                          /\ calls[t].op \in {"Lock", "Open", "Create"}})

Call(t, op, arg) ==
    /\ calls[t].pc = "idle"
    /\ arg \in Args(op)
    /\ op \in {"Lock", "Open", "Create"} => Objects + Pending < MaxObjects
    /\ calls' = [calls EXCEPT ![t] = [pc |-> "called", op |-> op, arg |-> arg,
                                      go |-> FALSE, res |-> ""]]
    /\ UNCHANGED <<dir, flock, fs, files, handles, locks, lastSet, mu>>

Acquire(t) ==
    /\ calls[t].pc = "called"
    /\ MuFree(InstOf(calls[t].op, calls[t].arg))
    /\ mu' = [mu EXCEPT ![InstOf(calls[t].op, calls[t].arg)] = t]
    /\ calls' = [calls EXCEPT ![t].pc = "locked"]
    /\ UNCHANGED <<dir, flock, fs, files, handles, locks, lastSet>>

Check(t) ==
    /\ calls[t].pc = "locked"
    /\ calls' = [calls EXCEPT ![t].pc = "checked",
                              ![t].go = Proceeds(calls[t].op, calls[t].arg),
                              ![t].res = ErrOf(calls[t].op, calls[t].arg)]
    /\ UNCHANGED <<dir, flock, fs, files, handles, locks, lastSet, mu>>

\* fs.slock = &fileStorageLock{fs: fs}
LockDo(i) ==
    /\ locks' = Append(locks, [fs |-> i, released |-> FALSE])
    /\ fs' = [fs EXCEPT ![i].slock = Len(locks) + 1]
    /\ UNCHANGED <<dir, flock, files, handles>>

\* fs.slock = nil, when the tests found this handle in the slot
ReleaseDo(l, go) ==
    /\ fs' = IF go THEN [fs EXCEPT ![locks[l].fs].slock = 0] ELSE fs
    /\ locks' = [locks EXCEPT ![l].released = TRUE]
    /\ UNCHANGED <<dir, flock, files, handles>>

\* f.open = false; f.fs.open--; fw.File.Close(), when the tests found f.open
WrapCloseDo(h, go) ==
    /\ IF go
       THEN /\ files' = [files EXCEPT ![handles[h].f].open = FALSE]
            /\ fs' = [fs EXCEPT ![files[handles[h].f].fs].open = @ - 1]
            /\ handles' = [handles EXCEPT ![h].closed = TRUE, ![h].osOpen = FALSE]
       ELSE /\ handles' = [handles EXCEPT ![h].closed = TRUE]
            /\ UNCHANGED <<fs, files>>
    /\ UNCHANGED <<dir, flock, locks>>

\* fs.flock.release(); fs.logw.Close(); fs.open = -1
CloseDo(i) ==
    /\ fs' = [fs EXCEPT ![i].open = -1, ![i].logw = FALSE]
    /\ flock' = IF flock = i THEN 0 ELSE flock
    /\ UNCHANGED <<dir, files, handles, locks>>

Update(t) ==
    LET c == calls[t] IN
    /\ c.pc = "checked"
    /\ CASE c.op = "Release" -> ReleaseDo(c.arg, c.go)
         [] c.op = "WrapClose" -> WrapCloseDo(c.arg, c.go)
         [] ~c.go -> UNCHANGED <<dir, flock, fs, files, handles, locks>>
         [] c.op = "Lock" -> LockDo(c.arg)
         [] c.op = "Open" -> Opened(c.arg) /\ UNCHANGED <<dir, flock, locks>>
         [] c.op = "Create" ->
               /\ Opened(c.arg)
               /\ dir' = WriteFile(dir, path(c.arg), <<>>)
               /\ UNCHANGED <<flock, locks>>
         [] c.op = "Remove" ->
               /\ dir' = RemoveFile(dir, path(c.arg))
               /\ UNCHANGED <<flock, fs, files, handles, locks>>
         [] c.op = "Close" -> CloseDo(c.arg)
    /\ calls' = [calls EXCEPT ![t].pc = "updated"]
    /\ UNCHANGED <<lastSet, mu>>

\* the deferred fs.mu.Unlock(), and the return
Return(t) ==
    /\ calls[t].pc = "updated"
    /\ mu' = [mu EXCEPT ![InstOf(calls[t].op, calls[t].arg)] = 0]
    /\ calls' = [calls EXCEPT ![t] = NoCall]
    /\ UNCHANGED <<dir, flock, fs, files, handles, locks, lastSet>>

\* one storage as OpenFile returns it on an empty directory, and one File value
\* of it, which GetFile makes without a look at the storage
InitThreads ==
    /\ dir = TouchFile(RotateLog(LockFileDir(EmptyDir)), LOGNAME)
    /\ flock = 1
    /\ fs = [i \in Insts |-> IF i = 1
                             THEN [made |-> TRUE, open |-> 0, slock |-> 0, logw |-> TRUE]
                             ELSE NoInst]
    /\ files = <<NewFile(1, 1, TypeTable)>>
    /\ handles = <<>>
    /\ locks = <<>>
    /\ lastSet = -1
    /\ mu = [i \in Insts |-> 0]
    /\ calls = [t \in Threads |-> NoCall]

NextThreads ==
    \/ \E t \in Threads, op \in ThreadOps : \E arg \in Args(op) : Call(t, op, arg)
    \/ \E t \in Threads : Acquire(t)
    \/ \E t \in Threads : Check(t)
    \/ \E t \in Threads : Update(t)
    \/ \E t \in Threads : Return(t)

SpecThreads == InitThreads /\ [][NextThreads]_vars


(***************************************************************************)
(* Names.  The descriptor (kind, number) of a File value is an input of    *)
(* name, and the entries of the directory are the inputs of parse.  The    *)
(* directory here is one an earlier run left: its LOCK and LOG, a CURRENT  *)
(* and the temp file of a SetManifest that failed, a journal, and names    *)
(* that are not the storage's.  The storage is opened on it and one File   *)
(* value is drawn from the kinds and the numbers below.  Create writes the *)
(* name of the File value into the directory, GetFiles parses the entries. *)
(***************************************************************************)
ForeignNames ==
    { <<"f", "o", "o", ".", "t", "x", "t">>,
      <<"1", "2", "3">>,
      <<"M", "A", "N", "I", "F", "E", "S", "T">>,
      <<".", "l", "o", "g">> }

\* the number of the journal and of the temp file the earlier run left
OldNum == 7

\* sequence numbers: of one digit, of six, and of seven
Nums == {0, 1, 999999, 1000000, BigNum}

FoundDir ==
    [n \in ForeignNames \cup {LOCKNAME, LOGNAME, CURRENT, TempName(OldNum),
                              name(TypeJournal, OldNum)} |->
        IF n = CURRENT THEN ManifestLine(0)
        ELSE IF n = TempName(OldNum) THEN ManifestLine(OldNum)
        ELSE <<>>]

InitNames ==
    /\ dir = TouchFile(RotateLog(LockFileDir(FoundDir)), LOGNAME)
    /\ flock = 1
    /\ fs = [i \in Insts |-> IF i = 1
                             THEN [made |-> TRUE, open |-> 0, slock |-> 0, logw |-> TRUE]
                             ELSE NoInst]
    /\ \E t \in FileTypes, num \in Nums : files = <<NewFile(1, num, t)>>
    /\ handles = <<>>
    /\ locks = <<>>
    /\ lastSet = -1
    /\ mu = [i \in Insts |-> 0]
    /\ calls = [t \in Threads |-> NoCall]

\* the calls that write names into the directory, remove them and read them
NextNames ==
    \/ \E i \in Insts, mask \in Masks : GetFiles(i, mask)
    \/ \E f \in FileIds : Create(f)
    \/ \E f \in FileIds : Remove(f)
    \/ \E h \in HandleIds : WrapClose(h)

SpecNames == InitNames /\ [][NextNames]_vars


(***************************************************************************)
(* Vocabulary of the properties.                                           *)
(***************************************************************************)
\* a handle is live from the Open or Create that returned it to its first Close
Live(h) == ~handles[h].closed
HandleFs(h) == files[handles[h].f].fs
LiveOf(i) == {h \in HandleIds : Live(h) /\ HandleFs(h) = i}
\* two File values name the same logical file of the same storage
SameFile(a, b) == a.fs = b.fs /\ a.t = b.t /\ a.num = b.num
\* a lock handle is outstanding from the Lock that returned it to its first Release
Outstanding(i) == {l \in LockIds : locks[l].fs = i /\ ~locks[l].released}

(***************************************************************************)
(* C1: for every (kind, number) of an active storage at most one handle is *)
(* live, and Open and Create of a (kind, number) that has a live handle    *)
(* fail with errFileOpen, through whichever File value they are called.    *)
(* The code keeps the open flag in each File value, so this fails.         *)
(***************************************************************************)
C1_OneLiveHandlePerFile ==
    /\ \A g, h \in HandleIds :
         (Live(g) /\ Live(h) /\ SameFile(files[handles[g].f], files[handles[h].f])) => g = h
    /\ \A f \in FileIds :
         (Active(files[f].fs) /\ \E h \in HandleIds : Live(h) /\ SameFile(files[handles[h].f], files[f]))
            => (OpenErr(f) = "errFileOpen" /\ CreateErr(f) = "errFileOpen")

(***************************************************************************)
(* C2: while the storage is not closed, fs.open is the number of live      *)
(* handles.  A second Close of a handle whose File was opened again takes  *)
(* the count down for a handle that is still live, so this fails.          *)
(***************************************************************************)
C2_OpenCountsLiveHandles ==
    \A i \in Insts : Active(i) => fs[i].open = Cardinality(LiveOf(i))

(***************************************************************************)
(* C3: the first Close of a handle takes fs.open down by one and frees the *)
(* open flag of its file; every later Close of that handle returns         *)
(* ErrClosed and changes neither fs.open nor any open flag.                *)
(***************************************************************************)
C3_CloseOnce ==
    [][\A h \in HandleIds : WrapClose(h) =>
          IF Live(h)
          THEN /\ fs'[HandleFs(h)].open = fs[HandleFs(h)].open - 1
               /\ ~files'[handles[h].f].open
          ELSE /\ WrapCloseErr(h) = "ErrClosed"
               /\ fs' = fs
               /\ files' = files]_vars

(***************************************************************************)
(* C4: the storage is never closed while a handle is live.                 *)
(***************************************************************************)
C4_NoCloseWithLiveHandle ==
    \A i \in Insts : (Made(i) /\ fs[i].open < 0) => LiveOf(i) = {}

(***************************************************************************)
(* C5: Storage.Close with one handle live returns the files-still-open     *)
(* error; with that handle closed it returns nil; on a closed storage it   *)
(* returns ErrClosed.                                                      *)
(***************************************************************************)
C5_CloseResults ==
    \A i \in Insts :
        /\ (Active(i) /\ Cardinality(LiveOf(i)) = 1) => CloseErr(i) = "errStillOpen"
        /\ (Active(i) /\ LiveOf(i) = {}) => CloseErr(i) = "nil"
        /\ (Made(i) /\ fs[i].open < 0) => CloseErr(i) = "ErrClosed"


(***************************************************************************)
(* C6: closed is permanent.  Once fs.open < 0 it stays so, every call of   *)
(* Lock, GetFiles, GetManifest, SetManifest, Open, Create, Remove and      *)
(* Close on that storage returns ErrClosed, and no step that is one of     *)
(* these calls changes the storages, the File values, the handles, the     *)
(* locks or the directory.                                                 *)
(***************************************************************************)
\* what every call on storage i returns is ErrClosed
AllErrClosed(i) ==
    /\ LockErr(i) = "ErrClosed"
    /\ GetFilesErr(i) = "ErrClosed"
    /\ GetManifestErr(i, dir) = "ErrClosed"
    /\ CloseErr(i) = "ErrClosed"
    /\ \A f \in FileIds, io \in SetManifestIO : SetManifestErr(i, f, io) = "ErrClosed"
    /\ \A f \in FileIds : files[f].fs = i =>
          (OpenErr(f) = "ErrClosed" /\ CreateErr(f) = "ErrClosed" /\ RemoveErr(f) = "ErrClosed")

\* the step is one of the calls on storage i
CallOn(i) ==
    \/ Lock(i)
    \/ \E mask \in Masks : GetFiles(i, mask)
    \/ GetManifest(i)
    \/ \E f \in FileIds, io \in SetManifestIO : SetManifest(i, f, io)
    \/ Close(i)
    \/ \E f \in FileIds : files[f].fs = i /\ (Open(f) \/ Create(f) \/ Remove(f))

C6_ClosedIsPermanent ==
    [][\A i \in Insts : (Made(i) /\ fs[i].open < 0) =>
          /\ fs'[i].open < 0
          /\ AllErrClosed(i)
          /\ AllErrClosed(i)'
          /\ CallOn(i) => UNCHANGED <<dir, flock, fs, files, handles, locks>>]_vars

\* a closed storage with a File value whose file is in the directory
C6_Witness ==
    \E f \in FileIds : fs[files[f].fs].open < 0 /\ Exists(dir, path(f))

(***************************************************************************)
(* C7: SetManifest is atomic with respect to a stop of the process.  At    *)
(* whichever point of SetManifest(new) the process stops, CURRENT is then  *)
(* as it was before the call (absent, or with the same bytes) or holds     *)
(* exactly the line of the new manifest, and GetManifest of a storage      *)
(* opened afterwards never returns the invalid-CURRENT error.              *)
(***************************************************************************)
SameCurrent(d, e) ==
    /\ Exists(d, CURRENT) <=> Exists(e, CURRENT)
    /\ Exists(d, CURRENT) => d[CURRENT] = e[CURRENT]

\* the process has stopped: no storage is left of those there were
Stopped == (\E i \in Insts : Made(i)) /\ (\A i \in Insts : ~Made(i)')

\* GetManifest of an open storage returns a descriptor or finds no CURRENT; an
\* open storage can always take the step Close, so the first states of the
\* steps are all the states with an open storage
NoInvalidCurrent ==
    \A i \in Insts : Active(i) => GetManifestErr(i, dir) \in {"nil", "ENOENT"}

C7_SetManifestAtomic ==
    [][/\ NoInvalidCurrent
       /\ Stopped => \A i \in Insts, f \in FileIds, stage \in CrashStages :
            CrashInSetManifest(i, f, stage) =>
               \/ SameCurrent(dir, dir')
               \/ Exists(dir', CURRENT) /\ dir'[CURRENT] = ManifestLine(files[f].num)]_vars

\* a storage opened again after a stop in the middle of the write of the temp
\* file, with the CURRENT of an earlier SetManifest in the directory
C7_Witness ==
    \E n \in {0, BigNum}, i \in Insts :
        /\ Exists(dir, TempName(n))
        /\ dir[TempName(n)] = TornLine(n)
        /\ Exists(dir, CURRENT)
        /\ dir[CURRENT] # ManifestLine(n)
        /\ Active(i)
        /\ GetManifestErr(i, dir) = "nil"

(***************************************************************************)
(* C8: on an active storage GetManifest returns the Manifest descriptor    *)
(* with the number of the last SetManifest that returned nil, for the      *)
(* number 0 and for a number of more than six digits.                      *)
(***************************************************************************)
C8_SetThenGetManifest ==
    \A i \in Insts : (Active(i) /\ lastSet # -1) =>
        /\ GetManifestErr(i, dir) = "nil"
        /\ GetManifestResult(i, dir).t = TypeManifest
        /\ GetManifestResult(i, dir).num = lastSet

\* SetManifest of the seven-digit number has returned nil and GetManifest has
\* handed out its File value
C8_Witness ==
    /\ lastSet = BigNum
    /\ \E i \in Insts, f, g \in FileIds :
          /\ Active(i)
          /\ f < g
          /\ files[f].t = TypeManifest /\ files[f].num = BigNum
          /\ files[g] = GetManifestResult(i, dir)

(***************************************************************************)
(* C9: at most one lock handle is outstanding per storage.  As claimed:    *)
(* while a handle returned by Lock is not released every Lock returns      *)
(* ErrLocked, and with no handle outstanding Lock on the open storage      *)
(* succeeds.  On a storage that was closed with the handle outstanding     *)
(* Lock returns ErrClosed, so the claim holds as amended: ErrLocked on an  *)
(* open storage, ErrClosed on a closed one.                                *)
(***************************************************************************)
C9_Original ==
    \A i \in Insts : Made(i) =>
        /\ Cardinality(Outstanding(i)) <= 1
        /\ Outstanding(i) # {} => LockErr(i) = "ErrLocked"
        /\ (Active(i) /\ Outstanding(i) = {}) => LockErr(i) = "nil"

C9_OneLockHolder ==
    \A i \in Insts : Made(i) =>
        /\ Cardinality(Outstanding(i)) <= 1
        /\ Outstanding(i) # {} =>
              LockErr(i) = IF fs[i].open < 0 THEN "ErrClosed" ELSE "ErrLocked"
        /\ (Active(i) /\ Outstanding(i) = {}) => LockErr(i) = "nil"

\* a second handle held after the first was released
C9_Witness ==
    \E k, l \in LockIds :
        /\ k # l
        /\ locks[k].fs = locks[l].fs
        /\ locks[k].released
        /\ ~locks[l].released
        /\ fs[locks[l].fs].slock = l
        /\ Active(locks[l].fs)

(***************************************************************************)
(* C10: of the storages opened on the directory at most one is active, and *)
(* the lock on LOCK is held exactly while one is: OpenFile fails while the *)
(* lock is held, an OpenFile that fails on LOG gives the lock back, a      *)
(* successful OpenFile returns a storage with fs.open = 0 that holds the   *)
(* lock, and after Storage.Close the directory can be opened again.        *)
(***************************************************************************)
OneActive ==
    /\ Cardinality({i \in Insts : Active(i)}) <= 1
    /\ flock # 0 <=> \E i \in Insts : Active(i)
    /\ flock # 0 => flock \in Insts /\ Active(flock)
    /\ \A io \in OpenFileIO : flock # 0 => OpenFileErr(io) # "nil"
    /\ flock = 0 => OpenFileErr("ok") = "nil"

C10_OneActiveStorage ==
    [][/\ OneActive
       /\ OneActive'
       /\ \A io \in OpenFileIO : (OpenFile(io) /\ OpenFileErr(io) = "nil") =>
             /\ fs'[NextInst].made
             /\ fs'[NextInst].open = 0
             /\ flock' = NextInst
       /\ \A io \in OpenFileIO : (OpenFile(io) /\ OpenFileErr(io) # "nil") =>
             /\ fs' = fs
             /\ flock' = flock]_vars

\* the directory opened again after the first storage was closed
C10_Witness ==
    \E i, j \in Insts :
        /\ Made(i) /\ fs[i].open < 0
        /\ Active(j) /\ fs[j].open = 0
        /\ flock = j


(***************************************************************************)
(* C11: Remove of a descriptor (kind, number) that has a live handle is    *)
(* rejected with errFileOpen and the file stays in the directory; Remove   *)
(* of a descriptor with no live handle deletes the file, and GetFiles does *)
(* not list it afterwards.  The open flag Remove tests is the one of the   *)
(* File value it is called on, so through a second File value of the same  *)
(* (kind, number) the file is deleted under the live handle.               *)
(***************************************************************************)
\* some handle of the (kind, number) of File value f is live
LiveHandleOn(f) ==
    \E h \in HandleIds : Live(h) /\ SameFile(files[handles[h].f], files[f])

C11_RemoveUnlessLive ==
    [][\A f \in FileIds : (Active(files[f].fs) /\ Remove(f)) =>
          IF LiveHandleOn(f)
          THEN /\ RemoveErr(f) = "errFileOpen"
               /\ dir' = dir
          ELSE /\ ~Exists(dir', path(f))
               /\ path(f) \notin Matching(dir', FileTypes)]_vars


(***************************************************************************)
(* C12: GetManifest of an active storage returns a descriptor only when    *)
(* the whole of CURRENT is one line, ended by its newline, that is the     *)
(* name of a Manifest file, and that descriptor has kind Manifest; for any *)
(* other content it returns the invalid-CURRENT error.  The code hands the *)
(* bytes before the last newline to parse, which also takes the name of a  *)
(* journal or table file and stops reading a manifest name at a newline.   *)
(***************************************************************************)
\* s is MANIFEST- followed by decimal digits and nothing else
IsManifestName(s) ==
    /\ Len(s) > Len(MANIFESTPFX)
    /\ MatchLit(s, 1, MANIFESTPFX)
    /\ \A k \in (Len(MANIFESTPFX) + 1)..Len(s) : s[k] \in DigitSet

\* b is exactly one newline-terminated line that is the name of a Manifest file
OneManifestLine(b) ==
    /\ Len(b) >= 1
    /\ b[Len(b)] = NL
    /\ \A k \in 1..(Len(b) - 1) : b[k] # NL
    /\ IsManifestName(SubSeq(b, 1, Len(b) - 1))

C12_GetManifestOnlyManifest ==
    \A i \in Insts : (Active(i) /\ Exists(dir, CURRENT)) =>
        IF OneManifestLine(dir[CURRENT])
        THEN /\ GetManifestErr(i, dir) = "nil"
             /\ GetManifestResult(i, dir).t = TypeManifest
        ELSE GetManifestErr(i, dir) = "errInvalidCurrent"


(***************************************************************************)
(* C13: SetManifest of an active storage with a File value whose kind is   *)
(* not Manifest returns ErrInvalidFile and leaves the directory as it is:  *)
(* no temp file CURRENT.<N> is made and CURRENT keeps its bytes.           *)
(***************************************************************************)
C13_SetManifestInvalidKind ==
    [][\A i \in Insts, f \in FileIds : (Active(i) /\ files[f].t # TypeManifest) =>
          \A io \in SetManifestIO :
              /\ SetManifestErr(i, f, io) = "ErrInvalidFile"
              /\ SetManifest(i, f, io) => (dir' = dir /\ lastSet' = lastSet)]_vars

\* a table File value on an active storage whose CURRENT an earlier SetManifest wrote
C13_Witness ==
    \E i \in Insts, f \in FileIds :
        /\ Active(i)
        /\ files[f].t = TypeTable
        /\ Exists(dir, CURRENT)
        /\ ~Exists(dir, TempName(files[f].num))

(***************************************************************************)
(* C14: after every SetManifest that returns nil the directory holds no    *)
(* temp file CURRENT.<N>, for any N.  SetManifest renames its own temp     *)
(* file and removes no other, so the temp file of an earlier SetManifest   *)
(* that failed stays.                                                      *)
(***************************************************************************)
\* n is CURRENT.<something>
IsTempName(n) ==
    /\ Len(n) > Len(CURRENT) + 1
    /\ SubSeq(n, 1, Len(CURRENT) + 1) = CURRENT \o <<".">>

C14_NoTempAfterSetManifest ==
    [][\A i \in Insts, f \in FileIds, io \in SetManifestIO :
          (SetManifest(i, f, io) /\ SetManifestErr(i, f, io) = "nil") =>
              \A n \in DOMAIN dir' : ~IsTempName(n)]_vars


(***************************************************************************)
(* C15: Open and Create on a File value whose handle is not yet closed     *)
(* fail with errFileOpen and leave fs.open and the open flags as they are; *)
(* once that handle is closed, Open and Create on the File value succeed   *)
(* again (Open when the file is there) and take fs.open up by one.  A      *)
(* second Close of an older handle of the File value frees the flag while  *)
(* the newer handle is live, so the first half fails.                      *)
(***************************************************************************)
\* a handle returned by Open or Create of File value f is live
HasLiveHandle(f) == \E h \in HandleIds : handles[h].f = f /\ Live(h)

C15_ReopenAfterClose ==
    [][\A f \in FileIds : Active(files[f].fs) =>
          IF HasLiveHandle(f)
          THEN /\ OpenErr(f) = "errFileOpen"
               /\ CreateErr(f) = "errFileOpen"
               /\ (Open(f) \/ Create(f)) => (fs' = fs /\ files' = files)
          ELSE /\ OpenErr(f) = IF Exists(dir, path(f)) THEN "nil" ELSE "ENOENT"
               /\ CreateErr(f) = "nil"
               /\ ((Open(f) /\ OpenErr(f) = "nil") \/ Create(f)) =>
                     /\ fs'[files[f].fs].open = fs[files[f].fs].open + 1
                     /\ files'[f].open]_vars


(***************************************************************************)
(* C16: with several threads calling Lock, Release, Open, Create, handle   *)
(* Close, Remove and Storage.Close on one storage, the tests and the       *)
(* assignments of a call are one atomic step: between fs.mu.Lock() and the *)
(* return of a call no other call on that storage is past its Lock, and    *)
(* what the tests found still holds when the assignments are made, so the  *)
(* calls take effect one after the other in the order they took the mutex. *)
(* In particular no two Lock calls, no two Open or Create calls on one     *)
(* File value, and no Open or Create together with a Storage.Close are     *)
(* past their tests with success at the same time.                         *)
(***************************************************************************)
\* thread t is between fs.mu.Lock() and the return of its call
InMutex(t) == calls[t].pc \in {"locked", "checked", "updated"}
\* the tests of the call of thread t have let it through
Passed(t) == calls[t].pc \in {"checked", "updated"} /\ calls[t].go
CallInst(t) == InstOf(calls[t].op, calls[t].arg)

C16_CallsAtomic ==
    /\ \A t, u \in Threads :
          (InMutex(t) /\ InMutex(u) /\ CallInst(t) = CallInst(u)) => t = u
    /\ \A t \in Threads : InMutex(t) => mu[CallInst(t)] = t
    /\ \A t \in Threads : calls[t].pc = "checked" =>
          /\ calls[t].go = Proceeds(calls[t].op, calls[t].arg)
          /\ calls[t].res = ErrOf(calls[t].op, calls[t].arg)
    /\ \A t, u \in Threads : (t # u /\ Passed(t) /\ Passed(u)) =>
          /\ ~(calls[t].op = "Lock" /\ calls[u].op = "Lock" /\ calls[t].arg = calls[u].arg)
          /\ ~(calls[t].op \in {"Open", "Create"} /\ calls[u].op \in {"Open", "Create"}
                 /\ calls[t].arg = calls[u].arg)
          /\ ~(calls[t].op \in {"Open", "Create"} /\ calls[u].op = "Close"
                 /\ CallInst(t) = CallInst(u))

\* two threads are in Lock at the same time: one has taken the slot and not yet
\* returned, the other waits for the mutex
C16_Witness ==
    \E t, u \in Threads :
        /\ t # u
        /\ calls[t].op = "Lock" /\ calls[t].pc = "updated" /\ calls[t].res = "nil"
        /\ calls[u].op = "Lock" /\ calls[u].pc = "called"
        /\ fs[calls[t].arg].slock # 0


(***************************************************************************)
(* C17: GetFiles(mask) of an active storage returns one File value for     *)
(* each directory entry that is the name of a file of a kind in mask, and  *)
(* none for LOCK, LOG, LOG.old, CURRENT, CURRENT.<N> and the names that    *)
(* are not the storage's; the File values returned are not open, and the   *)
(* call changes neither fs.open nor a handle nor the directory.  With no   *)
(* table in the directory GetFiles(Table) is empty; after Create of table  *)
(* 1 and the Close of its handle it is the one descriptor (Table, 1).      *)
(***************************************************************************)
\* n is decimal digits followed by the four characters ext
IsNumberedName(n, ext) ==
    /\ Len(n) > 4
    /\ SubSeq(n, Len(n) - 3, Len(n)) = ext
    /\ \A k \in 1..(Len(n) - 4) : n[k] \in DigitSet

\* n is the name of a file of kind t
IsNameOfKind(n, t) ==
    CASE t = TypeManifest -> IsManifestName(n)
      [] t = TypeJournal  -> IsNumberedName(n, <<".", "l", "o", "g">>)
      [] t = TypeTable    -> IsNumberedName(n, <<".", "s", "s", "t">>)

\* r lists the entries of the directory of the kinds in mask, each once
ListsKinds(i, r, mask) ==
    LET nm == [k \in 1..Len(r) |-> name(r[k].t, r[k].num)] IN
    /\ \A k \in 1..Len(r) : r[k].fs = i /\ r[k].t \in mask /\ ~r[k].open
    /\ \A n \in DOMAIN dir :
          Cardinality({k \in 1..Len(r) : nm[k] = n})
             = IF \E t \in mask : IsNameOfKind(n, t) THEN 1 ELSE 0
    /\ \A k \in 1..Len(r) : Exists(dir, nm[k])

C17_GetFilesListsKinds ==
    [][\A i \in Insts : Active(i) => \A mask \in Masks :
          /\ GetFilesErr(i) = "nil"
          /\ \A o \in Orders(Matching(dir, mask)) :
                LET r == GetFilesResult(i, o) IN ListsKinds(i, r, mask)
          /\ (files' # files /\ GetFiles(i, mask)) =>
                LET r == SubSeq(files', Len(files) + 1, Len(files')) IN
                /\ fs' = fs /\ handles' = handles /\ dir' = dir
                /\ \A f \in FileIds : files'[f] = files[f]
                /\ ListsKinds(i, r, mask)]_vars

\* table 1 was created and its handle closed, and a later File value for it is
\* the whole list of the tables, in a directory with foreign names and a journal
C17_Witness ==
    \E i \in Insts, f, g \in FileIds, h \in HandleIds :
        /\ Active(i) /\ fs[i].open = 0
        /\ f < g
        /\ handles[h].f = f /\ handles[h].closed
        /\ files[g] = NewFile(i, 1, TypeTable)
        /\ Matching(dir, {TypeTable}) = {name(TypeTable, 1)}
        /\ Exists(dir, LOGNAME) /\ Exists(dir, LOCKNAME)
        /\ Exists(dir, name(TypeJournal, OldNum))
        /\ Exists(dir, LOGOLD) /\ Exists(dir, CURRENT) /\ Exists(dir, TempName(OldNum))
        /\ \A n \in ForeignNames : Exists(dir, n)


(***************************************************************************)
(* C18: parse of the name of a descriptor gives the descriptor back, for   *)
(* each kind and for numbers of one, six and seven digits; parse finds no  *)
(* match in foo.txt, 123, MANIFEST and .log.  Here for every File value    *)
(* there is, the one drawn and the ones GetFiles parsed out of the         *)
(* directory, and for the foreign names in the directory.                  *)
(***************************************************************************)
C18_ParseOfName ==
    /\ \A f \in FileIds :
          parse(name(files[f].t, files[f].num))
             = [ok |-> TRUE, t |-> files[f].t, num |-> files[f].num]
    /\ \A n \in DOMAIN dir : n \in ForeignNames => ~parse(n).ok

\* the manifest with the seven-digit number was created, and GetFiles has read
\* its descriptor back out of the directory that also holds the foreign names
C18_Witness ==
    /\ Len(files) >= 2
    /\ files[1].t = TypeManifest /\ files[1].num = BigNum
    /\ files[2].t = TypeManifest /\ files[2].num = BigNum
    /\ Exists(dir, name(TypeManifest, BigNum))
    /\ \A n \in ForeignNames : Exists(dir, n)


(***************************************************************************)
(* C19: Release of a lock handle that is not in the slot of its storage    *)
(* (released before, and perhaps followed by a newer handle) changes       *)
(* nothing: the slot keeps the handle it has, and Lock on the open storage *)
(* still returns ErrLocked while a handle is in the slot.                  *)
(***************************************************************************)
C19_StaleReleaseNoEffect ==
    [][\A l \in LockIds : fs[locks[l].fs].slock # l =>
          /\ ReleasedSlot(locks[l].fs, l) = fs[locks[l].fs].slock
          /\ Release(l) =>
                /\ fs' = fs
                /\ UNCHANGED <<dir, flock, files, handles>>
                /\ (Active(locks[l].fs) /\ fs[locks[l].fs].slock # 0) =>
                      LockErr(locks[l].fs)' = "ErrLocked"]_vars

\* a released handle and a newer handle of the same open storage in its slot
C19_Witness ==
    \E k, l \in LockIds :
        /\ k < l
        /\ locks[k].fs = locks[l].fs
        /\ locks[k].released
        /\ fs[locks[l].fs].slock = l
        /\ LockErr(locks[l].fs) = "ErrLocked"
        /\ ReleasedSlot(locks[k].fs, k) = l

(***************************************************************************)
(* C20: a Storage.Close that is refused because fs.open > 0 leaves the     *)
(* storage active: fs.open, the open flags and the lock slot are as they   *)
(* were, the lock on LOCK is still held and the log writer still open, and *)
(* Open, Create, Lock, GetFiles, GetManifest and SetManifest do not return *)
(* ErrClosed afterwards.                                                   *)
(***************************************************************************)
\* no call on storage i returns ErrClosed
NoneErrClosed(i) ==
    /\ LockErr(i) # "ErrClosed"
    /\ GetFilesErr(i) # "ErrClosed"
    /\ GetManifestErr(i, dir) # "ErrClosed"
    /\ \A f \in FileIds, io \in SetManifestIO : SetManifestErr(i, f, io) # "ErrClosed"
    /\ \A f \in FileIds : files[f].fs = i =>
          (OpenErr(f) # "ErrClosed" /\ CreateErr(f) # "ErrClosed")

C20_RefusedCloseKeepsActive ==
    [][\A i \in Insts : (Made(i) /\ fs[i].open > 0) =>
          /\ CloseErr(i) = "errStillOpen"
          /\ flock = i /\ fs[i].logw
          /\ NoneErrClosed(i)
          /\ Close(i) =>
                /\ UNCHANGED <<dir, flock, fs, files, handles, locks>>
                /\ fs'[i].open > 0 /\ fs'[i].logw /\ flock' = i]_vars

\* a storage with a handle open, a lock handle in its slot, and CURRENT written
C20_Witness ==
    \E i \in Insts, h \in HandleIds :
        /\ fs[i].open > 0
        /\ CloseErr(i) = "errStillOpen"
        /\ HandleFs(h) = i /\ Live(h) /\ files[handles[h].f].open
        /\ flock = i /\ fs[i].logw

=============================================================================
